---- MODULE Spec2Model ----
(***************************************************************************)
(* Model of prpy's vector field planner (src/prpy/planning/vectorfield.py) *)
(* and of the planner errors of src/prpy/planning/base.py.                 *)
(*                                                                         *)
(* The arm is a three-joint Cartesian arm: a configuration is <<x, y, a>>, *)
(* its end-effector pose is planar (position x, y and heading a).  All     *)
(* quantities are integers: one velocity unit is the stall tolerance       *)
(* dq_tol, one clock unit is the 0.1 s per-sample budget of PlanToTSR.     *)
(* What the kinematics provider answers (collision queries, the joint      *)
(* velocity solved from a twist) is chosen by the environment at every     *)
(* iteration.                                                              *)
(***************************************************************************)
EXTENDS Integers, Sequences, FiniteSets, TLC

VARIABLES
    now,          \* wall clock, time.time()
    robot,        \* [q, vel, active, res, lim]: the robot's state and limits
    saved,        \* state saved by "with robot:", << >> outside the block
    pc,           \* "idle", "running" (inside the loop), "tsr" (PlanToTSR's loop), "done"
    method,       \* the planning method the caller invoked
    args,         \* what the closures vf_* / CloseEnough / TerminateMove captured
    timelimit,    \* FollowVectorField's timelimit: << >> is None, <<t>> a limit
    start_time,   \* FollowVectorField's start_time
    dqout,        \* the velocity carried from one iteration to the next
    dt,           \* the timestep
    trajs,        \* trajectory objects by identity: trajs[QTRAJ], trajs[COPY]
    cached_traj,  \* identity of the cached trajectory, NONE when None
    status,       \* last value returned by fn_terminate, "" before the first
    failure,      \* the PlanningError caught at line 306 (e), NoExc if none
    fvf_result,   \* how the last FollowVectorField call ended
    result,       \* how the caller's call ended
    tsr,          \* PlanToTSR's locals
    call,         \* the arguments PlanToEndEffectorOffset was called with
    sequence,     \* Sequence.plan's planners and its position among them
    h_snapshot    \* history: the buffer at the latest CACHE_AND_CONTINUE

vars == <<now, robot, saved, pc, method, args, timelimit, start_time, dqout, dt,
          trajs, cached_traj, status, failure, fvf_result, result, tsr, call,
          sequence, h_snapshot>>

(***************************************************************************)
(* Bounds of the model.                                                    *)
(***************************************************************************)
MaxWaypoints == 3
MaxClock == 3

(***************************************************************************)
(* Values.                                                                 *)
(***************************************************************************)
NDOF == 3

TERMINATE == "TERMINATE"
CACHE_AND_CONTINUE == "CACHE_AND_CONTINUE"
CONTINUE == "CONTINUE"

NONE == 0
QTRAJ == 1
COPY == 2

\* dq_tol = 0.0001 is the velocity unit.
dq_tol == 1

NoExc == [cls |-> "none", msg |-> ""]
PlanningError(m) == [cls |-> "PlanningError", msg |-> m]
ValueError(m) == [cls |-> "ValueError", msg |-> m]
\* class UnsupportedPlanningError(PlanningError)
UnsupportedPlanningError == [cls |-> "UnsupportedPlanningError", msg |-> ""]

NoResult == [kind |-> "none", traj |-> NONE, exc |-> NoExc]
Return(t) == [kind |-> "return", traj |-> t, exc |-> NoExc]
Raise(e) == [kind |-> "raise", traj |-> NONE, exc |-> e]

(***************************************************************************)
(* numpy on integer vectors.                                               *)
(***************************************************************************)
Abs(x) == IF x < 0 THEN -x ELSE x

RECURSIVE SumSq(_)
SumSq(v) == IF v = << >> THEN 0 ELSE Head(v) * Head(v) + SumSq(Tail(v))

RECURSIVE Dot(_, _)
Dot(u, v) == IF u = << >> THEN 0 ELSE Head(u) * Head(v) + Dot(Tail(u), Tail(v))

VAdd(u, v) == [i \in 1..Len(u) |-> u[i] + v[i]]
VSub(u, v) == [i \in 1..Len(u) |-> u[i] - v[i]]
VScale(k, v) == [i \in 1..Len(v) |-> k * v[i]]

\* numpy.linalg.norm(v) < t and numpy.linalg.norm(v) > t, for an integer t.
NormLT(v, t) == t > 0 /\ SumSq(v) < t * t
NormGT(v, t) == t < 0 \/ SumSq(v) > t * t

\* numpy.linalg.norm of a vector along one axis.
Norm(v) == CHOOSE r \in 0..SumSq(v) : r * r = SumSq(v)

RECURSIVE MinOf(_)
MinOf(v) ==
    IF Len(v) = 1 THEN Head(v)
    ELSE LET m == MinOf(Tail(v)) IN IF Head(v) < m THEN Head(v) ELSE m

(***************************************************************************)
(* The kinematics provider and prpy.util.                                  *)
(***************************************************************************)
\* manip.GetEndEffectorTransform(): joint i drives pose coordinate i.
GetEndEffectorTransform(q) == <<q[1], q[2], q[3]>>

\* prpy.util.GeodesicError(t1, t2): the translation from t1 to t2, then the
\* rotation angle between them.
GeodesicError(t1, t2) == <<t2[1] - t1[1], t2[2] - t1[2], t2[3] - t1[3]>>

Translation(error) == SubSeq(error, 1, 2)
Angle(error) == error[3]

(***************************************************************************)
(* Termination evaluators.  An evaluation either returns a status or       *)
(* raises.                                                                 *)
(***************************************************************************)
Returned(s) == [exc |-> NoExc, status |-> s]
Raised(e) == [exc |-> e, status |-> ""]

\* CloseEnough with "pose_error <= pose_error_tol".
CloseEnough_AtMost(q, a) ==
    LET pose_error == GeodesicError(GetEndEffectorTransform(q), a.goal_pose)
    IN  IF ~NormGT(pose_error, a.pose_error_tol)
        THEN Returned(TERMINATE)
        ELSE Returned(CONTINUE)

\* prpy.util.GeodesicDistance(t1, t2) < pose_error_tol
CloseEnough(q, a) ==
    LET pose_error == GeodesicError(GetEndEffectorTransform(q), a.goal_pose)
    IN  IF NormLT(pose_error, a.pose_error_tol)
        THEN Returned(TERMINATE)
        ELSE Returned(CONTINUE)

DistanceMoved(q, a) ==
    Dot(Translation(GeodesicError(a.Tstart, GetEndEffectorTransform(q))), a.direction)

PositionDeviation(q, a) ==
    LET error == GeodesicError(a.Tstart, GetEndEffectorTransform(q))
    IN  VSub(Translation(error), VScale(DistanceMoved(q, a), a.direction))

OrientationError(q, a) ==
    Abs(Angle(GeodesicError(a.Tstart, GetEndEffectorTransform(q))))

\* TerminateMove looking at the distance before the two tolerances.
TerminateMove_DistanceFirst(q, a) ==
    IF DistanceMoved(q, a) > a.max_distance
    THEN Returned(TERMINATE)
    ELSE IF OrientationError(q, a) > a.angular_tolerance
    THEN Raised(PlanningError("Deviated from orientation constraint."))
    ELSE IF NormGT(PositionDeviation(q, a), a.position_tolerance)
    THEN Raised(PlanningError("Deviated from straight line constraint."))
    ELSE IF DistanceMoved(q, a) > a.distance
    THEN Returned(CACHE_AND_CONTINUE)
    ELSE Returned(CONTINUE)

\* TerminateMove with "distance_moved >= max_distance".
TerminateMove_AtLeastMax(q, a) ==
    IF OrientationError(q, a) > a.angular_tolerance
    THEN Raised(PlanningError("Deviated from orientation constraint."))
    ELSE IF NormGT(PositionDeviation(q, a), a.position_tolerance)
    THEN Raised(PlanningError("Deviated from straight line constraint."))
    ELSE IF DistanceMoved(q, a) >= a.max_distance
    THEN Returned(TERMINATE)
    ELSE IF DistanceMoved(q, a) > a.distance
    THEN Returned(CACHE_AND_CONTINUE)
    ELSE Returned(CONTINUE)

\* TerminateMove caching as soon as the hand has not moved backwards.
TerminateMove_CacheEarly(q, a) ==
    IF OrientationError(q, a) > a.angular_tolerance
    THEN Raised(PlanningError("Deviated from orientation constraint."))
    ELSE IF NormGT(PositionDeviation(q, a), a.position_tolerance)
    THEN Raised(PlanningError("Deviated from straight line constraint."))
    ELSE IF DistanceMoved(q, a) > a.max_distance
    THEN Returned(TERMINATE)
    ELSE IF DistanceMoved(q, a) >= 0
    THEN Returned(CACHE_AND_CONTINUE)
    ELSE Returned(CONTINUE)

TerminateMove(q, a) ==
    IF OrientationError(q, a) > a.angular_tolerance
    THEN Raised(PlanningError("Deviated from orientation constraint."))
    ELSE IF NormGT(PositionDeviation(q, a), a.position_tolerance)
    THEN Raised(PlanningError("Deviated from straight line constraint."))
    ELSE IF DistanceMoved(q, a) > a.max_distance
    THEN Returned(TERMINATE)
    ELSE IF DistanceMoved(q, a) > a.distance
    THEN Returned(CACHE_AND_CONTINUE)
    ELSE Returned(CONTINUE)

\* The fn_terminate that the planning method passed to FollowVectorField.
fn_terminate(q) ==
    IF method = "PlanToEndEffectorOffset"
    THEN TerminateMove(q, args)
    ELSE CloseEnough(q, args)

(***************************************************************************)
(* FollowVectorField.                                                      *)
(***************************************************************************)
ErrTimeout == PlanningError("Reached time limit.")
ErrCollision == PlanningError("Encountered collision.")
ErrSelfCollision == PlanningError("Encountered self-collision.")
ErrStall == PlanningError("Local minimum, unable to progress")

RECURSIVE MaxOf(_)
MaxOf(v) ==
    IF Len(v) = 1 THEN Head(v)
    ELSE LET m == MaxOf(Tail(v)) IN IF Head(v) > m THEN Head(v) ELSE m

\* The timestep taken as the largest of the ratios.
ComputeDt_Max(res, lim) == MaxOf([i \in 1..NDOF |-> res[i] \div lim[i]])

\* dt = min(robot.GetDOFResolutions() / robot.GetDOFVelocityLimits())
ComputeDt(res, lim) == MinOf([i \in 1..NDOF |-> res[i] \div lim[i]])

\* The elapsed time taken with the wrong sign.
TimedOut_Backwards(tl, start, current_time) == tl # << >> /\ start - current_time > tl[1]

\* timelimit is not None and current_time - start_time > timelimit
TimedOut(tl, start, current_time) == tl # << >> /\ current_time - start > tl[1]

\* numpy.concatenate([q_curr, dqout, [dt]])
MakeWaypoint(q_curr, dq, step) == q_curr \o dq \o <<step>>

WpQ(w) == SubSeq(w, 1, NDOF)
WpDq(w) == SubSeq(w, NDOF + 1, 2 * NDOF)
WpDt(w) == w[2 * NDOF + 1]

\* The velocity recorded were the one computed in the same iteration.
RecordedVelocity_New(previous, new) == new

\* waypoint.append(dqout) at line 286 comes before dqout = fn_vectorfield()
\* at line 290: the velocity recorded is the one the iteration started with.
RecordedVelocity(previous, new) == previous

\* qtraj.Insert(0, waypoint)
InsertWaypoint_Front(traj, waypoint) == <<waypoint>> \o traj

\* qtraj.Insert(qtraj.GetNumWaypoints(), waypoint)
InsertWaypoint(traj, waypoint) == Append(traj, waypoint)

\* numpy.linalg.norm(dqout) < dq_tol
Stalled(dq) == NormLT(dq, dq_tol)

\* prpy.util.CopyTrajectory(traj): a new trajectory object holding the same
\* waypoints; the model keeps one such object, COPY.
CopyTrajectory(traj) == COPY

\* cached_traj = qtraj, the buffer itself instead of a copy of it.
CacheSlot_Alias(st, cached) ==
    IF st = CACHE_AND_CONTINUE THEN QTRAJ ELSE cached

\* if status == Status.CACHE_AND_CONTINUE: cached_traj = CopyTrajectory(qtraj)
CacheSlot(st, cached) ==
    IF st = CACHE_AND_CONTINUE THEN CopyTrajectory(QTRAJ) ELSE cached

\* qnew = q_curr + dqout*dt
Integrate(q_curr, dq, step) == VAdd(q_curr, VScale(step, dq))

\* The handler returning the working buffer when there is a cache.
HandleFailure_ReturnsBuffer(e, cached) ==
    IF cached # NONE THEN Return(QTRAJ) ELSE Raise(e)

\* The handler re-raising whatever the cache holds.
HandleFailure_AlwaysRaise(e, cached) == Raise(e)

\* except PlanningError as e: return cached_traj if it is not None, else raise
HandleFailure(e, cached) ==
    IF cached # NONE THEN Return(cached) ELSE Raise(e)

\* A pass that asks fn_terminate before it tests the velocity for a stall.
LoopBody_EvaluatesFirst(current_time, coll, selfcoll, vf) ==
    LET entry == [exit |-> "loop", exc |-> NoExc, qtraj |-> trajs[QTRAJ],
                  dqout |-> dqout, status |-> status,
                  cached_traj |-> cached_traj, copy |-> trajs[COPY],
                  q |-> robot.q, snap |-> FALSE]
    IN  IF TimedOut(timelimit, start_time, current_time)
        THEN [entry EXCEPT !.exit = "raise", !.exc = ErrTimeout]
        ELSE IF coll
        THEN [entry EXCEPT !.exit = "raise", !.exc = ErrCollision]
        ELSE IF selfcoll
        THEN [entry EXCEPT !.exit = "raise", !.exc = ErrSelfCollision]
        ELSE
        LET q_curr == robot.q
            waypoint == MakeWaypoint(q_curr, RecordedVelocity(dqout, vf), dt)
            inserted == InsertWaypoint(trajs[QTRAJ], waypoint)
            added == [entry EXCEPT !.qtraj = inserted, !.dqout = vf]
            ev == fn_terminate(q_curr)
            slot == CacheSlot(ev.status, cached_traj)
            evald == [added EXCEPT
                        !.status = ev.status,
                        !.cached_traj = slot,
                        !.copy = IF ev.status = CACHE_AND_CONTINUE /\ slot = COPY
                                 THEN inserted ELSE @,
                        !.snap = (ev.status = CACHE_AND_CONTINUE)]
        IN  IF ev.exc # NoExc
            THEN [added EXCEPT !.exit = "raise", !.exc = ev.exc]
            ELSE IF ev.status = TERMINATE
            THEN [evald EXCEPT !.exit = "break"]
            ELSE IF Stalled(vf)
            THEN [evald EXCEPT !.exit = "raise", !.exc = ErrStall]
            ELSE [evald EXCEPT !.q = Integrate(q_curr, vf, dt)]

(***************************************************************************)
(* One pass through the body of "while True" (lines 270-304), given the    *)
(* clock reading and the provider's answers of this iteration.  The result *)
(* tells how the pass ends (exit: "raise", "break" or "loop") and the      *)
(* values of the locals and of the robot's configuration at that point.    *)
(***************************************************************************)
LoopBody(current_time, coll, selfcoll, vf) ==
    LET entry == [exit |-> "loop", exc |-> NoExc, qtraj |-> trajs[QTRAJ],
                  dqout |-> dqout, status |-> status,
                  cached_traj |-> cached_traj, copy |-> trajs[COPY],
                  q |-> robot.q, snap |-> FALSE]
    IN  IF TimedOut(timelimit, start_time, current_time)
        THEN [entry EXCEPT !.exit = "raise", !.exc = ErrTimeout]
        ELSE IF coll
        THEN [entry EXCEPT !.exit = "raise", !.exc = ErrCollision]
        ELSE IF selfcoll
        THEN [entry EXCEPT !.exit = "raise", !.exc = ErrSelfCollision]
        ELSE
        LET q_curr == robot.q
            waypoint == MakeWaypoint(q_curr, RecordedVelocity(dqout, vf), dt)
            inserted == InsertWaypoint(trajs[QTRAJ], waypoint)
            added == [entry EXCEPT !.qtraj = inserted, !.dqout = vf]
        IN  IF Stalled(vf)
            THEN [added EXCEPT !.exit = "raise", !.exc = ErrStall]
            ELSE
            LET ev == fn_terminate(q_curr)
                slot == CacheSlot(ev.status, cached_traj)
                evald == [added EXCEPT
                            !.status = ev.status,
                            !.cached_traj = slot,
                            !.copy = IF ev.status = CACHE_AND_CONTINUE /\ slot = COPY
                                     THEN inserted ELSE @,
                            !.snap = (ev.status = CACHE_AND_CONTINUE)]
            IN  IF ev.exc # NoExc
                THEN [added EXCEPT !.exit = "raise", !.exc = ev.exc]
                ELSE IF ev.status = TERMINATE
                THEN [evald EXCEPT !.exit = "break"]
                ELSE [evald EXCEPT !.q = Integrate(q_curr, vf, dt)]

\* How a pass ended, as a name.
Outcome(o) ==
    IF o.exit = "raise" THEN o.exc.msg
    ELSE IF o.exit = "break" THEN TERMINATE
    ELSE o.status

\* An "except" that goes by the exact class.
IsPlanningError_ExactClass(e) == e.cls = "PlanningError"

\* isinstance(e, PlanningError)
IsPlanningError(e) == e.cls \in {"PlanningError", "UnsupportedPlanningError"}

\* min(0.1, timelimit_time - time.time()); 0.1 s is the clock unit.
AttemptCap == 1

\* The whole remaining time as the attempt's timelimit.
AttemptBudget_Uncapped(deadline, t) == deadline - t

AttemptBudget(deadline, t) == IF deadline - t < AttemptCap THEN deadline - t ELSE AttemptCap

(***************************************************************************)
(* State changes.                                                          *)
(***************************************************************************)
\* Lines 250-268: "with robot:" saves the robot's state, the arm's joints
\* become the active DOFs, the locals are set up.
EnterFollowVectorField(tl, t) ==
    /\ start_time' = t
    /\ timelimit' = tl
    /\ saved' = <<[q |-> robot.q, active |-> robot.active]>>
    /\ robot' = [robot EXCEPT !.active = "arm"]
    /\ trajs' = [i \in {QTRAJ, COPY} |-> << >>]
    /\ cached_traj' = NONE
    /\ dqout' = robot.vel
    /\ dt' = ComputeDt(robot.res, robot.lim)
    /\ status' = ""
    /\ failure' = NoExc
    /\ fvf_result' = NoResult
    /\ h_snapshot' = << >>
    /\ pc' = "running"

\* The caller of FollowVectorField gets its result: PlanToEndEffectorPose and
\* PlanToEndEffectorOffset pass it on, PlanToTSR's loop (lines 224-231)
\* returns a trajectory, continues on a PlanningError and lets anything else
\* through.
Deliver(fr) ==
    IF method = "PlanToTSR" /\ fr.kind = "raise" /\ IsPlanningError(fr.exc)
    THEN /\ pc' = "tsr"
         /\ result' = result
    ELSE /\ pc' = "done"
         /\ result' = fr

\* Leaving FollowVectorField with the robot as the loop left it.
LeaveFollowVectorField_NoRestore(fr) ==
    /\ robot' = robot
    /\ saved' = << >>
    /\ fvf_result' = fr
    /\ Deliver(fr)

\* Leaving FollowVectorField: the "with" block restores the robot.
LeaveFollowVectorField(fr) ==
    /\ robot' = [robot EXCEPT !.q = saved[1].q, !.active = saved[1].active]
    /\ saved' = << >>
    /\ fvf_result' = fr
    /\ Deliver(fr)

Apply(o) ==
    /\ trajs' = [trajs EXCEPT ![QTRAJ] = o.qtraj, ![COPY] = o.copy]
    /\ dqout' = o.dqout
    /\ status' = o.status
    /\ cached_traj' = o.cached_traj
    /\ h_snapshot' = IF o.snap THEN o.qtraj ELSE h_snapshot
    /\ failure' = o.exc
    /\ CASE o.exit = "loop" ->
              /\ robot' = [robot EXCEPT !.q = o.q]
              /\ UNCHANGED <<saved, pc, fvf_result, result>>
         [] o.exit = "break" -> LeaveFollowVectorField(Return(QTRAJ))
         [] o.exit = "raise" -> LeaveFollowVectorField(HandleFailure(o.exc, o.cached_traj))
    /\ UNCHANGED <<now, method, args, timelimit, start_time, dt, tsr, call, sequence>>

(***************************************************************************)
(* Inputs the model draws from.                                            *)
(***************************************************************************)
\* Robots: joint resolutions and velocity limits (their ratios are whole).
\* and the joint velocities robot.GetActiveDOFVelocities() reports.
Robots ==
    { [res |-> <<2, 2, 4>>, lim |-> <<2, 1, 2>>, vel |-> <<0, 0, 0>>],
      [res |-> <<4, 2, 4>>, lim |-> <<2, 1, 1>>, vel |-> <<1, 0, 0>>] }

\* Joint velocities a vector field may return.
Vels == { <<0, 0, 0>>, <<1, 0, 0>>, <<1, 1, 0>>, <<1, 0, 1>>, <<-1, 0, 0>> }

Timelimits == { << >>, <<0>>, <<1>> }

Goals == { <<1, 0, 0>>, <<2, 1, 0>> }
PoseTolerances == { 0, 2 }

Directions == { <<0, 0>>, <<2, 0>> }
Distances == { -1, 0, 1 }
MaxDistances == { << >>, <<0>>, <<2>> }
PositionTolerances == { -1, 1 }
AngularTolerances == { -1, 0 }

NoArgs ==
    [goal_pose |-> <<0, 0, 0>>, pose_error_tol |-> 0,
     direction |-> <<0, 0>>, distance |-> 0, max_distance |-> 0,
     position_tolerance |-> 0, angular_tolerance |-> 0,
     Tstart |-> <<0, 0, 0>>]

\* No PlanToEndEffectorOffset call was made.
NoCall ==
    [direction |-> <<0, 0>>, distance |-> 0, max_distance |-> << >>,
     position_tolerance |-> 0, angular_tolerance |-> 0]

\* Sequence.plan's state: what each of self._planners does when its plan is
\* called, the position of the loop among them, the planners invoked so far.
NoSeq == [planners |-> << >>, i |-> 1, invoked |-> << >>]

\* PlanToTSR's locals: the chains it was given, the goal-sampling chains it
\* cycles through, the position in the cycle, the deadline timelimit_time
\* and the number of sample() calls made.
NoTsr == [given |-> << >>, chains |-> << >>, next |-> 1, deadline |-> 0,
          samples |-> 0, raised |-> NoExc]

Init ==
    /\ now = 0
    /\ \E r \in Robots :
           robot = [q |-> <<0, 0, 0>>, vel |-> r.vel, active |-> "body",
                    res |-> r.res, lim |-> r.lim]
    /\ saved = << >>
    /\ pc = "idle"
    /\ method = ""
    /\ args = NoArgs
    /\ timelimit = << >>
    /\ start_time = 0
    /\ dqout = <<0, 0, 0>>
    /\ dt = 0
    /\ trajs = [i \in {QTRAJ, COPY} |-> << >>]
    /\ cached_traj = NONE
    /\ status = ""
    /\ failure = NoExc
    /\ fvf_result = NoResult
    /\ result = NoResult
    /\ tsr = NoTsr
    /\ call = NoCall
    /\ sequence = NoSeq
    /\ h_snapshot = << >>

(***************************************************************************)
(* PlanToEndEffectorPose (lines 62-96).                                    *)
(***************************************************************************)
PlanToEndEffectorPose(goal_pose, tl, pose_error_tol, t) ==
    /\ args' = [NoArgs EXCEPT !.goal_pose = goal_pose,
                              !.pose_error_tol = pose_error_tol]
    /\ EnterFollowVectorField(tl, t)

CallPlanToEndEffectorPose ==
    /\ pc = "idle"
    /\ \E goal_pose \in Goals, tl \in Timelimits, tol \in PoseTolerances :
           PlanToEndEffectorPose(goal_pose, tl, tol, now)
    /\ method' = "PlanToEndEffectorPose"
    /\ UNCHANGED <<now, result, tsr, call, sequence>>

(***************************************************************************)
(* PlanToEndEffectorOffset (lines 98-175).                                 *)
(***************************************************************************)
\* The argument checks without the comparison of max_distance to distance.
ValidateOffset_SkipsMax(direction, distance, max_distance, position_tolerance, angular_tolerance) ==
    IF distance < 0
    THEN ValueError("Distance must be non-negative.")
    ELSE IF SumSq(direction) = 0
    THEN ValueError("Direction must be non-zero")
    ELSE IF position_tolerance < 0
    THEN ValueError("Position tolerance must be non-negative.")
    ELSE IF angular_tolerance < 0
    THEN ValueError("Angular tolerance must be non-negative.")
    ELSE NoExc

\* Lines 117-126: the error the argument checks raise, NoExc if none.
ValidateOffset(direction, distance, max_distance, position_tolerance, angular_tolerance) ==
    IF distance < 0
    THEN ValueError("Distance must be non-negative.")
    ELSE IF SumSq(direction) = 0
    THEN ValueError("Direction must be non-zero")
    ELSE IF max_distance # << >> /\ max_distance[1] < distance
    THEN ValueError("Max distance is less than minimum distance.")
    ELSE IF position_tolerance < 0
    THEN ValueError("Position tolerance must be non-negative.")
    ELSE IF angular_tolerance < 0
    THEN ValueError("Angular tolerance must be non-negative.")
    ELSE NoExc

\* direction /= numpy.linalg.norm(direction)
Normalize(direction) == [i \in 1..Len(direction) |-> direction[i] \div Norm(direction)]

\* A default that leaves room beyond distance.
DefaultMaxDistance_Beyond(distance, max_distance) ==
    IF max_distance = << >> THEN distance + 1 ELSE max_distance[1]

\* if max_distance is None: max_distance = distance
DefaultMaxDistance(distance, max_distance) ==
    IF max_distance = << >> THEN distance ELSE max_distance[1]

CallPlanToEndEffectorOffset ==
    /\ pc = "idle"
    /\ method' = "PlanToEndEffectorOffset"
    /\ \E direction \in Directions, distance \in Distances,
          max_distance \in MaxDistances, tl \in Timelimits,
          position_tolerance \in PositionTolerances,
          angular_tolerance \in AngularTolerances :
           LET e == ValidateOffset(direction, distance, max_distance,
                                   position_tolerance, angular_tolerance)
           IN  /\ call' = [direction |-> direction, distance |-> distance,
                           max_distance |-> max_distance,
                           position_tolerance |-> position_tolerance,
                           angular_tolerance |-> angular_tolerance]
               /\ IF e # NoExc
                  THEN /\ result' = Raise(e)
                       /\ pc' = "done"
                       /\ UNCHANGED <<robot, saved, args, timelimit, start_time,
                                      dqout, dt, trajs, cached_traj, status,
                                      failure, fvf_result, h_snapshot>>
                  ELSE /\ args' = [NoArgs EXCEPT
                                     !.direction = Normalize(direction),
                                     !.distance = distance,
                                     !.max_distance =
                                         DefaultMaxDistance(distance, max_distance),
                                     !.position_tolerance = position_tolerance,
                                     !.angular_tolerance = angular_tolerance,
                                     !.Tstart = GetEndEffectorTransform(robot.q)]
                       /\ EnterFollowVectorField(tl, now)
                       /\ UNCHANGED result
    /\ UNCHANGED <<now, tsr, sequence>>

(***************************************************************************)
(* PlanToTSR (lines 177-234).                                              *)
(***************************************************************************)
GoalChainA ==
    [sample_start |-> FALSE, sample_goal |-> TRUE, constrain |-> FALSE,
     goals |-> { <<1, 0, 0>> }]
GoalChainB ==
    [sample_start |-> FALSE, sample_goal |-> TRUE, constrain |-> FALSE,
     goals |-> { <<2, 1, 0>> }]
IdleChain ==
    [sample_start |-> FALSE, sample_goal |-> FALSE, constrain |-> FALSE,
     goals |-> { <<1, 0, 0>> }]
StartChain ==
    [sample_start |-> TRUE, sample_goal |-> FALSE, constrain |-> FALSE,
     goals |-> { <<1, 0, 0>> }]
PathChain ==
    [sample_start |-> FALSE, sample_goal |-> TRUE, constrain |-> TRUE,
     goals |-> { <<1, 0, 0>> }]

ChainLists ==
    { << >>, <<IdleChain>>, <<GoalChainA, GoalChainB>>, <<IdleChain, GoalChainA>>,
      <<StartChain>>, <<StartChain, StartChain>>, <<GoalChainA, StartChain>>,
      <<GoalChainA, PathChain>> }

TsrTimelimits == { 0, 1, 2 }

\* pose_error_tol=0.01, the default PlanToTSR's attempts run with; 0.01 is
\* the unit of pose distance.
DefaultPoseErrorTol == 1

\* Lines 207-210: the error raised for chains that cannot be handled.
ValidateChains(tsrchains) ==
    IF \E i \in 1..Len(tsrchains) :
           tsrchains[i].sample_start \/ tsrchains[i].constrain
    THEN PlanningError("Cannot handle start or trajectory-wide TSR constraints.")
    ELSE NoExc

\* The chains as given, with no filter.
GoalChains_Unfiltered(tsrchains) == tsrchains

\* tsrchains = [t for t in tsrchains if t.sample_goal]
RECURSIVE GoalChains(_)
GoalChains(tsrchains) ==
    IF tsrchains = << >> THEN << >>
    ELSE IF Head(tsrchains).sample_goal
    THEN <<Head(tsrchains)>> \o GoalChains(Tail(tsrchains))
    ELSE GoalChains(Tail(tsrchains))

\* A cycle that never leaves its position.
CycleNext_NoAdvance(i, n) == i

\* itertools.cycle: the position after position i of a list of n.
CycleNext(i, n) == (i % n) + 1

\* The count of sample() calls, kept up to MaxSamples.
MaxSamples == 2
CountUp(n) == IF n < MaxSamples THEN n + 1 ELSE n

CallPlanToTSR ==
    /\ pc = "idle"
    /\ method' = "PlanToTSR"
    /\ \E tsrchains \in ChainLists, tl \in TsrTimelimits :
           LET e == ValidateChains(tsrchains)
           IN  IF e # NoExc
               THEN /\ result' = Raise(e)
                    /\ pc' = "done"
                    /\ tsr' = [NoTsr EXCEPT !.given = tsrchains]
               ELSE /\ tsr' = [given |-> tsrchains,
                               chains |-> GoalChains(tsrchains), next |-> 1,
                               deadline |-> now + tl, samples |-> 0,
                               raised |-> NoExc]
                    /\ pc' = "tsr"
                    /\ result' = result
    /\ UNCHANGED <<now, robot, saved, args, timelimit, start_time, dqout, dt,
                   trajs, cached_traj, status, failure, fvf_result, call, sequence,
                   h_snapshot>>

\* takewhile's test passes: the next chain of the cycle is sampled and
\* PlanToEndEffectorPose is tried on the sample (lines 222-229).  The clock
\* may advance between takewhile's reading and the reading in min().
TsrSample ==
    /\ pc = "tsr"
    /\ tsr.chains # << >>
    /\ now < tsr.deadline
    /\ \E ik_goal \in tsr.chains[tsr.next].goals, d \in {0, 1} :
           /\ now + d <= MaxClock
           /\ now' = now + d
           /\ PlanToEndEffectorPose(ik_goal,
                                    <<AttemptBudget(tsr.deadline, now + d)>>,
                                    DefaultPoseErrorTol, now + d)
    /\ tsr' = [tsr EXCEPT !.next = CycleNext(tsr.next, Len(tsr.chains)),
                          !.samples = CountUp(tsr.samples),
                          !.raised = NoExc]
    /\ UNCHANGED <<method, result, call, sequence>>

\* What a per-sample attempt can raise besides the failures of
\* FollowVectorField's loop: the call passes the caller's kw_args on.
AttemptErrors == { UnsupportedPlanningError, ValueError("") }

\* Lines 223-231 when the attempt raises before FollowVectorField is
\* entered: "except PlanningError: continue" decides by isinstance.
TsrAttemptRaises ==
    /\ pc = "tsr"
    /\ tsr.chains # << >>
    /\ now < tsr.deadline
    /\ \E e \in AttemptErrors :
           /\ tsr' = [tsr EXCEPT !.next = CycleNext(tsr.next, Len(tsr.chains)),
                                 !.samples = CountUp(tsr.samples),
                                 !.raised = e]
           /\ IF IsPlanningError(e)
              THEN /\ pc' = "tsr"
                   /\ result' = result
              ELSE /\ pc' = "done"
                   /\ result' = Raise(e)
    /\ UNCHANGED <<now, robot, saved, method, args, timelimit, start_time, dqout,
                   dt, trajs, cached_traj, status, failure, fvf_result, call,
                   sequence, h_snapshot>>

\* The sampler is exhausted (no chain, or the deadline is reached): line 234.
TsrTimeout ==
    /\ pc = "tsr"
    /\ tsr.chains = << >> \/ ~(now < tsr.deadline)
    /\ result' = Raise(PlanningError("Reached timeout without finding solution"))
    /\ pc' = "done"
    /\ UNCHANGED <<now, robot, saved, method, args, timelimit, start_time, dqout,
                   dt, trajs, cached_traj, status, failure, fvf_result, tsr,
                   call, sequence, h_snapshot>>

(***************************************************************************)
(* Sequence.plan (base.py lines 47-58) over planners whose plan is         *)
(* Planner.plan (base.py lines 19-25).                                     *)
(***************************************************************************)
\* What a planner does with the method asked for: it has no such method, or
\* its method returns a trajectory, raises a PlanningError or a ValueError.
PlannerKinds == { "no method", "returns", "PlanningError", "ValueError" }

MaxPlanners == 3
PlannerLists == UNION { [1..n -> PlannerKinds] : n \in 0..MaxPlanners }

\* Planner.plan of the i-th planner: getattr's AttributeError becomes an
\* UnsupportedPlanningError, anything else is the method's own outcome.
plan(planner, i) ==
    IF planner = "no method" THEN Raise(UnsupportedPlanningError)
    ELSE IF planner = "returns" THEN Return(i)
    ELSE IF planner = "PlanningError" THEN Raise(PlanningError(""))
    ELSE Raise(ValueError(""))

CallSequencePlan ==
    /\ pc = "idle"
    /\ method' = "Sequence.plan"
    /\ \E planners \in PlannerLists :
           sequence' = [planners |-> planners, i |-> 1, invoked |-> << >>]
    /\ pc' = "seq"
    /\ UNCHANGED <<now, robot, saved, args, timelimit, start_time, dqout, dt,
                   trajs, cached_traj, status, failure, fvf_result, result, tsr,
                   call, h_snapshot>>

\* One pass of "for planner in self._planners".
SequenceTry ==
    /\ pc = "seq"
    /\ sequence.i <= Len(sequence.planners)
    /\ LET r == plan(sequence.planners[sequence.i], sequence.i)
       IN  /\ sequence' = [sequence EXCEPT
                               !.i = @ + 1,
                               !.invoked = Append(@, sequence.i)]
           /\ IF r.kind = "raise" /\ IsPlanningError(r.exc)
              THEN /\ pc' = "seq"
                   /\ result' = result
              ELSE /\ pc' = "done"
                   /\ result' = r
    /\ UNCHANGED <<now, robot, saved, method, args, timelimit, start_time, dqout,
                   dt, trajs, cached_traj, status, failure, fvf_result, tsr,
                   call, h_snapshot>>

\* The loop is over: "raise PlanningError".
SequenceExhausted ==
    /\ pc = "seq"
    /\ sequence.i > Len(sequence.planners)
    /\ result' = Raise(PlanningError(""))
    /\ pc' = "done"
    /\ UNCHANGED <<now, robot, saved, method, args, timelimit, start_time, dqout,
                   dt, trajs, cached_traj, status, failure, fvf_result, tsr,
                   call, sequence, h_snapshot>>

(***************************************************************************)
(* The iterations of FollowVectorField's loop, one action per way a pass   *)
(* through the body can end.                                               *)
(***************************************************************************)
Iterate(outcomes) ==
    \E coll \in BOOLEAN, selfcoll \in BOOLEAN, vf \in Vels :
        LET o == LoopBody(now, coll, selfcoll, vf)
        IN  /\ Outcome(o) \in outcomes
            /\ Len(o.qtraj) <= MaxWaypoints
            /\ Apply(o)

FvfTimeout ==
    /\ pc = "running"
    /\ Iterate({ErrTimeout.msg})

FvfCollision ==
    /\ pc = "running"
    /\ Iterate({ErrCollision.msg})

FvfSelfCollision ==
    /\ pc = "running"
    /\ Iterate({ErrSelfCollision.msg})

FvfStall ==
    /\ pc = "running"
    /\ Iterate({ErrStall.msg})

FvfConstraintViolated ==
    /\ pc = "running"
    /\ Iterate({"Deviated from orientation constraint.",
                "Deviated from straight line constraint."})

FvfCacheAndContinue ==
    /\ pc = "running"
    /\ Iterate({CACHE_AND_CONTINUE})

FvfContinue ==
    /\ pc = "running"
    /\ Iterate({CONTINUE})

FvfTerminate ==
    /\ pc = "running"
    /\ Iterate({TERMINATE})

\* Wall-clock time passes while a call is in progress.
Tick ==
    /\ pc \in {"running", "tsr"}
    /\ now < MaxClock
    /\ now' = now + 1
    /\ UNCHANGED <<robot, saved, pc, method, args, timelimit, start_time, dqout,
                   dt, trajs, cached_traj, status, failure, fvf_result, result,
                   tsr, call, sequence, h_snapshot>>

Next ==
    \/ CallPlanToEndEffectorPose
    \/ CallPlanToEndEffectorOffset
    \/ CallPlanToTSR
    \/ TsrSample
    \/ TsrAttemptRaises
    \/ TsrTimeout
    \/ CallSequencePlan
    \/ SequenceTry
    \/ SequenceExhausted
    \/ FvfTimeout
    \/ FvfCollision
    \/ FvfSelfCollision
    \/ FvfStall
    \/ FvfConstraintViolated
    \/ FvfCacheAndContinue
    \/ FvfContinue
    \/ FvfTerminate
    \/ Tick

Spec == Init /\ [][Next]_vars

\* The wall clock keeps advancing, and a loop whose timeout test holds is
\* not suspended forever before the pass that raises.  What the collision
\* checker and the vector field answer is left free.
FairSpec == Spec /\ WF_vars(Tick \/ FvfTimeout \/ TsrTimeout)

(***************************************************************************)
(* Properties.                                                             *)
(***************************************************************************)
Buffer == trajs[QTRAJ]
Last(seq) == seq[Len(seq)]
IsPrefix(s, t) == Len(s) <= Len(t) /\ SubSeq(t, 1, Len(s)) = s

\* The last FollowVectorField call has ended, by a failure raised in its loop.
FvfEnded == fvf_result.kind # "none"
FvfFailed == FvfEnded /\ failure # NoExc
FvfReturned == fvf_result.kind = "return"
ReturnedTraj == trajs[fvf_result.traj]

LoopFailures ==
    { ErrTimeout, ErrCollision, ErrSelfCollision, ErrStall,
      PlanningError("Deviated from orientation constraint."),
      PlanningError("Deviated from straight line constraint.") }

DirectCall == method \in {"PlanToEndEffectorPose", "PlanToEndEffectorOffset"}

\* C1: when a failure is raised inside FollowVectorField's loop, the call
\* returns the cached trajectory if the cache slot is non-null at that moment
\* (no failure reaches the caller), and otherwise raises that same failure.
C1_FailureHandling ==
    FvfFailed =>
        /\ failure \in LoopFailures
        /\ cached_traj # NONE => fvf_result = Return(cached_traj)
        /\ cached_traj = NONE => fvf_result = Raise(failure)
        /\ (DirectCall /\ pc = "done") => result = fvf_result

C1_Witness ==
    /\ FvfFailed
    /\ failure = PlanningError("Deviated from straight line constraint.")
    /\ cached_traj # NONE
    /\ DirectCall
    /\ result.kind = "return"

\* C2: a run that fails after a CACHE_AND_CONTINUE evaluation returns the
\* buffer exactly as it was at the most recent such evaluation: it ends with
\* the waypoint of the configuration evaluated then, and nothing appended
\* later is in it.
C2_CacheLaw ==
    (FvfFailed /\ h_snapshot # << >>) =>
        /\ FvfReturned
        /\ ReturnedTraj = h_snapshot
        /\ fn_terminate(WpQ(Last(ReturnedTraj))).status = CACHE_AND_CONTINUE
        /\ IsPrefix(ReturnedTraj, Buffer)

C2_Witness ==
    /\ FvfFailed
    /\ h_snapshot # << >>
    /\ FvfReturned
    /\ Len(Buffer) > Len(ReturnedTraj)

\* C3: the buffer is append-only (an iteration keeps the earlier waypoints in
\* place and adds at most one at the end) and a cached trajectory is always a
\* prefix of the buffer.
C3_AppendOnlyPrefix ==
    /\ [](cached_traj # NONE => IsPrefix(trajs[cached_traj], Buffer))
    /\ [][pc = "running" =>
            /\ IsPrefix(Buffer, Buffer')
            /\ Len(Buffer') <= Len(Buffer) + 1]_vars

C3_Witness ==
    /\ cached_traj # NONE
    /\ cached_traj = COPY
    /\ Len(trajs[cached_traj]) = 2
    /\ Len(Buffer) = 3

\* C4: waypoint k holds the configuration of iteration k and the velocity
\* computed in iteration k-1 (the robot's initial velocity for k = 1), which
\* is the velocity of the Euler step that led to that configuration; the
\* velocity computed in iteration k is used for the next Euler step and is
\* not in waypoint k.
C4_LagByOne ==
    /\ Len(Buffer) >= 1 => WpDq(Buffer[1]) = robot.vel
    /\ \A k \in 2..Len(Buffer) :
           WpQ(Buffer[k]) = VAdd(WpQ(Buffer[k-1]), VScale(dt, WpDq(Buffer[k])))
    /\ (pc = "running" /\ Len(Buffer) >= 1) =>
           robot.q = VAdd(WpQ(Last(Buffer)), VScale(dt, dqout))

C4_Witness ==
    /\ pc = "running"
    /\ Len(Buffer) = 2
    /\ WpDq(Buffer[1]) = <<1, 0, 0>>
    /\ WpDq(Buffer[2]) = <<1, 1, 0>>
    /\ dqout = <<-1, 0, 0>>

\* C5: every waypoint of every trajectory carries the same timestep, the
\* minimum over the joints of resolution / velocity limit, fixed for the run.
IsMinRatio(d, res, lim) ==
    /\ \A j \in 1..NDOF : d <= res[j] \div lim[j]
    /\ \E j \in 1..NDOF : d = res[j] \div lim[j]

C5_FixedTimestep ==
    /\ pc = "running" => IsMinRatio(dt, robot.res, robot.lim)
    /\ \A t \in {QTRAJ, COPY} : \A k \in 1..Len(trajs[t]) :
           /\ WpDt(trajs[t][k]) = dt
           /\ IsMinRatio(WpDt(trajs[t][k]), robot.res, robot.lim)

C5_Witness ==
    /\ FvfReturned
    /\ Len(ReturnedTraj) = 3
    /\ dt = 2
    /\ robot.res[1] \div robot.lim[1] = 2
    /\ robot.res[3] \div robot.lim[3] = 4

\* C6: PlanToEndEffectorPose returns only a trajectory whose last waypoint is
\* closer to the goal than the tolerance, never a cached one, and fails only
\* by the timeout, a collision or a stall.
ByPoseMethod == method \in {"PlanToEndEffectorPose", "PlanToTSR"}

C6_PoseReached ==
    ByPoseMethod =>
        /\ cached_traj = NONE
        /\ FvfReturned =>
              /\ fvf_result.traj = QTRAJ
              /\ NormLT(GeodesicError(
                            GetEndEffectorTransform(WpQ(Last(ReturnedTraj))),
                            args.goal_pose),
                        args.pose_error_tol)
        /\ fvf_result.kind = "raise" =>
              fvf_result.exc \in {ErrTimeout, ErrCollision, ErrSelfCollision, ErrStall}

C6_Witness ==
    /\ method = "PlanToEndEffectorPose"
    /\ FvfReturned
    /\ Len(ReturnedTraj) = 2
    /\ args.goal_pose = <<2, 1, 0>>
    /\ WpQ(Last(ReturnedTraj)) # args.goal_pose

\* C7 as stated: with distance = 0 and max_distance = 0 the first evaluation
\* of the offset evaluator returns TERMINATE.
ZeroOffset ==
    /\ method = "PlanToEndEffectorOffset"
    /\ pc # "idle"
    /\ args.distance = 0
    /\ args.max_distance = 0

FirstEvaluationDone == Len(Buffer) = 1 /\ status # ""

C8_MovedAtLeastDistance ==
    (method = "PlanToEndEffectorOffset" /\ FvfReturned) =>
        LET qf == WpQ(Last(ReturnedTraj))
        IN  /\ DistanceMoved(qf, args) >= args.distance
            /\ OrientationError(qf, args) <= args.angular_tolerance
            /\ ~NormGT(PositionDeviation(qf, args), args.position_tolerance)

C8_Witness ==
    /\ method = "PlanToEndEffectorOffset"
    /\ FvfReturned
    /\ fvf_result.traj = COPY
    /\ args.distance = 1
    /\ PositionDeviation(WpQ(Last(ReturnedTraj)), args) # <<0, 0>>

\* C9: no waypoint of a trajectory returned by PlanToEndEffectorOffset has
\* moved further than max_distance along the direction.
C9_NotBeyondMaxDistance ==
    (method = "PlanToEndEffectorOffset" /\ FvfReturned) =>
        \A k \in 1..Len(ReturnedTraj) :
            DistanceMoved(WpQ(ReturnedTraj[k]), args) <= args.max_distance

\* C10: given a chain that requires start sampling or a whole-path
\* constraint, PlanToTSR fails with an UnsupportedPlanningError before any
\* sample() call and before any planning attempt.
Unsupported(tsrchains) ==
    \E i \in 1..Len(tsrchains) : tsrchains[i].sample_start \/ tsrchains[i].constrain

C10_UnsupportedRequest ==
    (method = "PlanToTSR" /\ pc # "idle" /\ Unsupported(tsr.given)) =>
        /\ pc = "done"
        /\ result.kind = "raise"
        /\ result.exc.cls = "UnsupportedPlanningError"
        /\ tsr.samples = 0
        /\ fvf_result = NoResult

\* C11: in PlanToTSR's loop an UnsupportedPlanningError or an invalid-argument
\* failure raised by a per-sample attempt is not intercepted: it reaches the
\* caller at once and nothing more is sampled.
C11_OnlyRecoverableIntercepted ==
    (method = "PlanToTSR" /\ tsr.raised \in AttemptErrors) =>
        /\ pc = "done"
        /\ result = Raise(tsr.raised)

\* C12: PlanToTSR samples the goal chains round-robin (the first chain first,
\* then each next one, wrapping to the first after the last, one sample per
\* visit), returns the trajectory of the first attempt that succeeds, and
\* after that success samples no chain and makes no attempt.
AttemptStarts == pc = "tsr" /\ pc' = "running"

C12_RoundRobinFirstSuccess ==
    /\ []((method = "PlanToTSR" /\ pc = "tsr" /\ tsr.samples = 0) => tsr.next = 1)
    /\ []((method = "PlanToTSR" /\ FvfReturned) =>
              pc = "done" /\ result = fvf_result)
    /\ [][AttemptStarts =>
              /\ args'.goal_pose \in tsr.chains[tsr.next].goals
              /\ tsr'.next = IF tsr.next = Len(tsr.chains) THEN 1
                                                           ELSE tsr.next + 1
              /\ tsr.samples < MaxSamples => tsr'.samples = tsr.samples + 1]_vars
    /\ [][(method = "PlanToTSR" /\ pc = "done") => UNCHANGED vars]_vars

C12_Witness ==
    /\ method = "PlanToTSR"
    /\ pc = "done"
    /\ result = Return(QTRAJ)
    /\ Len(tsr.chains) = 2
    /\ tsr.samples = 2
    /\ tsr.next = 1
    /\ args.goal_pose \in tsr.chains[2].goals

\* C13: every per-sample attempt of PlanToTSR is given the timelimit
\* min(0.1 s, time remaining until the deadline); no sample is taken once the
\* clock has reached the deadline; a call whose attempts all fail with a
\* PlanningError ends, once the deadline has passed, with the "reached
\* timeout" PlanningError, and every call with a chain to sample does end.
TsrTimeoutError == PlanningError("Reached timeout without finding solution")

C13_AttemptBudgetAndDeadline ==
    /\ [][AttemptStarts =>
              /\ now < tsr.deadline
              /\ \/ timelimit' = <<AttemptCap>> /\ AttemptCap <= tsr.deadline - now'
                 \/ timelimit' = <<tsr.deadline - now'>> /\ tsr.deadline - now' <= AttemptCap]_vars
    /\ [][(method = "PlanToTSR" /\ pc = "tsr" /\ now >= tsr.deadline) =>
              (tsr' = tsr /\ pc' # "running")]_vars
    /\ []((method = "PlanToTSR" /\ pc = "done" /\ tsr.samples > 0) =>
              \/ FvfReturned /\ result = fvf_result
              \/ ~IsPlanningError(tsr.raised) /\ result = Raise(tsr.raised)
              \/ result = Raise(TsrTimeoutError) /\ now >= tsr.deadline)
    /\ (method = "PlanToTSR" /\ pc = "tsr") ~> (pc = "done")

C13_Witness ==
    /\ method = "PlanToTSR"
    /\ pc = "done"
    /\ result = Raise(TsrTimeoutError)
    /\ tsr.samples = 2
    /\ timelimit = <<0>>
    /\ fvf_result = Raise(ErrTimeout)

\* C14: on every way out of FollowVectorField (normal return, cached return,
\* propagated failure) the robot's configuration and its active-DOF selection
\* are what they were before the call; the first call starts from the
\* configuration <<0, 0, 0>> with the DOFs "body" active.
C14_RobotRestored ==
    /\ pc # "running" => robot.q = <<0, 0, 0>> /\ robot.active = "body"
    /\ (pc # "running" /\ FvfEnded) => saved = << >>

C14_Witness ==
    /\ pc = "done"
    /\ fvf_result = Return(COPY)
    /\ failure # NoExc
    /\ WpQ(Last(Buffer)) # robot.q
    /\ robot.active = "body"

\* C15: with a finite timelimit and an advancing clock every run of
\* FollowVectorField ends; a run in which the evaluator returned neither
\* TERMINATE nor CACHE_AND_CONTINUE and no collision, stall or constraint
\* violation was raised ends with the timeout failure, raised by the test at
\* the start of a pass once more than timelimit has elapsed.
OtherFailures == LoopFailures \ { ErrTimeout }

C15_TimelimitEndsRun ==
    /\ (pc = "running" /\ timelimit # << >>) ~> (pc # "running")
    /\ []((FvfEnded /\ fvf_result # Return(QTRAJ) /\ cached_traj = NONE
              /\ failure \notin OtherFailures) =>
              /\ fvf_result = Raise(ErrTimeout)
              /\ timelimit # << >>)
    /\ [][(pc = "running" /\ failure' = ErrTimeout) =>
              /\ timelimit # << >>
              /\ now - start_time > timelimit[1]
              /\ Buffer' = Buffer
              /\ status' = status]_vars

C15_Witness ==
    /\ method = "PlanToEndEffectorPose"
    /\ timelimit = <<1>>
    /\ fvf_result = Raise(ErrTimeout)
    /\ status = CONTINUE
    /\ Len(Buffer) = 3

\* C16: PlanToEndEffectorOffset called with distance < 0, a zero direction,
\* a max_distance below distance, a negative position_tolerance or a negative
\* angular_tolerance fails with a ValueError before the start pose is
\* captured and before FollowVectorField is entered; the robot is untouched.
Malformed(c) ==
    \/ c.distance < 0
    \/ SumSq(c.direction) = 0
    \/ c.max_distance # << >> /\ c.max_distance[1] < c.distance
    \/ c.position_tolerance < 0
    \/ c.angular_tolerance < 0

C16_MalformedRejected ==
    (method = "PlanToEndEffectorOffset" /\ Malformed(call)) =>
        /\ pc = "done"
        /\ result.kind = "raise"
        /\ result.exc.cls = "ValueError"
        /\ args = NoArgs
        /\ fvf_result = NoResult
        /\ saved = << >>
        /\ Buffer = << >>
        /\ status = ""
        /\ robot.q = <<0, 0, 0>>
        /\ robot.active = "body"

C16_Witness ==
    /\ method = "PlanToEndEffectorOffset"
    /\ pc = "done"
    /\ call.distance = 1
    /\ call.max_distance = <<0>>
    /\ SumSq(call.direction) > 0
    /\ call.position_tolerance >= 0
    /\ call.angular_tolerance >= 0
    /\ result = Raise(ValueError("Max distance is less than minimum distance."))

\* C17: a pass of FollowVectorField's loop tests the timeout, then the
\* collisions, then appends the waypoint, evaluates the field, tests for a
\* stall, asks the termination evaluator and last takes the Euler step.  So
\* (a) a configuration in collision, or one reached after the timelimit,
\* never gives the normal return, whatever the evaluator would say there;
\* (b) a stalled velocity raises the stall failure without the evaluator
\* being asked, also where it would return TERMINATE; (c) after TERMINATE no
\* step is taken: the last waypoint of the returned trajectory holds the
\* configuration at which TERMINATE was returned.
PassStep == pc = "running" /\ now' = now
Elapsed == timelimit # << >> /\ now - start_time > timelimit[1]
NothingDone == Buffer' = Buffer /\ dqout' = dqout /\ status' = status
Appended == Len(Buffer') = Len(Buffer) + 1 /\ WpQ(Last(Buffer')) = robot.q

C17_OrderWithinPass ==
    /\ [][(PassStep /\ Elapsed) =>
              failure' = ErrTimeout /\ NothingDone /\ fvf_result' # Return(QTRAJ)]_vars
    /\ [][(PassStep /\ failure' \in {ErrCollision, ErrSelfCollision}) =>
              ~Elapsed /\ NothingDone /\ fvf_result' # Return(QTRAJ)]_vars
    /\ [](pc = "running" =>
              \A coll, selfcoll \in BOOLEAN, vf \in Vels :
                  (coll \/ selfcoll) =>
                      LET o == LoopBody(now, coll, selfcoll, vf)
                      IN  /\ o.exit = "raise"
                          /\ o.exc \in {ErrTimeout, ErrCollision, ErrSelfCollision}
                          /\ o.qtraj = Buffer)
    /\ [][(PassStep /\ ~NothingDone) => (~Elapsed /\ Appended)]_vars
    /\ [][(PassStep /\ ~NothingDone /\ SumSq(dqout') < dq_tol * dq_tol) =>
              /\ failure' = ErrStall
              /\ status' = status
              /\ fvf_result' # Return(QTRAJ)]_vars
    /\ [][(PassStep /\ fvf_result' = Return(QTRAJ)) =>
              /\ Appended
              /\ SumSq(dqout') >= dq_tol * dq_tol
              /\ fn_terminate(robot.q) = Returned(TERMINATE)
              /\ status' = TERMINATE]_vars
    /\ [][(PassStep /\ pc' = "running") =>
              /\ Appended
              /\ status' \in {CONTINUE, CACHE_AND_CONTINUE}
              /\ robot'.q = Integrate(robot.q, dqout', dt)]_vars

C17_Witness ==
    /\ failure = ErrStall
    /\ fvf_result = Raise(ErrStall)
    /\ Len(Buffer) = 2
    /\ fn_terminate(WpQ(Last(Buffer))) = Returned(TERMINATE)

\* C18: the offset evaluator decides in this order: an orientation error
\* above angular_tolerance fails; else a deviation from the line above
\* position_tolerance fails; else a distance moved above max_distance gives
\* TERMINATE; else a distance moved above distance gives CACHE_AND_CONTINUE;
\* else CONTINUE.  Beyond max_distance with a tolerance violated it fails;
\* a value equal to its bound neither fails nor triggers.
ByOffsetMethod == method = "PlanToEndEffectorOffset" /\ Buffer # << >>
EvaluatedQ == WpQ(Last(Buffer))
OrientationOff == OrientationError(EvaluatedQ, args) > args.angular_tolerance
LineOff ==
    SumSq(PositionDeviation(EvaluatedQ, args)) >
        args.position_tolerance * args.position_tolerance
Moved == DistanceMoved(EvaluatedQ, args)
ErrOrientation == PlanningError("Deviated from orientation constraint.")
ErrLine == PlanningError("Deviated from straight line constraint.")

C18_EvaluatorPriority ==
    /\ (ByOffsetMethod /\ failure = ErrOrientation) => OrientationOff
    /\ (ByOffsetMethod /\ failure = ErrLine) => ~OrientationOff /\ LineOff
    /\ (ByOffsetMethod /\ failure = NoExc) =>
           /\ ~OrientationOff
           /\ ~LineOff
           /\ status = TERMINATE <=> Moved > args.max_distance
           /\ status = CACHE_AND_CONTINUE <=>
                  (Moved <= args.max_distance /\ Moved > args.distance)
           /\ status = CONTINUE <=>
                  (Moved <= args.max_distance /\ Moved <= args.distance)

C18_Witness ==
    /\ ByOffsetMethod
    /\ failure = ErrOrientation
    /\ Moved > args.max_distance
    /\ ~LineOff

\* An evaluation with the distance moved and the deviation at their bounds.
C18_AtTheBounds ==
    /\ ByOffsetMethod
    /\ failure = NoExc
    /\ status = CACHE_AND_CONTINUE
    /\ Moved = args.max_distance
    /\ SumSq(PositionDeviation(EvaluatedQ, args)) =
           args.position_tolerance * args.position_tolerance
    /\ args.position_tolerance > 0

\* C19: Sequence.plan calls its planners in the order given and returns what
\* the first one that raises no PlanningError returns, calling none after
\* it; an UnsupportedPlanningError counts as a PlanningError; it raises a
\* PlanningError only when every planner was called and failed, also when
\* there is no planner.
FailsAsPlanningError(planner) == planner \in {"no method", "PlanningError"}
Invoked == Len(sequence.invoked)

C19_SequenceFirstSuccess ==
    /\ [](method = "Sequence.plan" =>
              /\ sequence.invoked = [k \in 1..Invoked |-> k]
              /\ Invoked <= Len(sequence.planners)
              /\ \A k \in 1..(Invoked - 1) :
                     FailsAsPlanningError(sequence.planners[k]))
    /\ []((method = "Sequence.plan" /\ pc = "done") =>
              \/ /\ Invoked > 0
                 /\ sequence.planners[Invoked] = "returns"
                 /\ result = Return(Invoked)
              \/ /\ Invoked > 0
                 /\ sequence.planners[Invoked] = "ValueError"
                 /\ result = Raise(ValueError(""))
              \/ /\ Invoked = Len(sequence.planners)
                 /\ \A k \in 1..Invoked :
                        FailsAsPlanningError(sequence.planners[k])
                 /\ result = Raise(PlanningError("")))
    /\ [][(method = "Sequence.plan" /\ pc = "done") => UNCHANGED vars]_vars

C19_Witness ==
    /\ method = "Sequence.plan"
    /\ pc = "done"
    /\ sequence.planners = <<"no method", "returns", "returns">>
    /\ sequence.invoked = <<1, 2>>
    /\ result = Return(2)

\* C20: when max_distance equals distance, as it does when max_distance is
\* left unset, the offset evaluator never returns CACHE_AND_CONTINUE, the
\* cache slot stays null for the whole run and every failure of the run is
\* propagated; a cached trajectory is returned only when max_distance was
\* given above distance.
OffsetAccepted ==
    method = "PlanToEndEffectorOffset" /\ pc # "idle" /\ ~Malformed(call)

C20_NoCacheWithoutMargin ==
    /\ (OffsetAccepted /\ call.max_distance = << >>) =>
           args.max_distance = call.distance
    /\ (OffsetAccepted /\ args.max_distance = call.distance) =>
           /\ status # CACHE_AND_CONTINUE
           /\ cached_traj = NONE
           /\ h_snapshot = << >>
           /\ FvfFailed => (fvf_result = Raise(failure) /\ result = fvf_result)
    /\ (method = "PlanToEndEffectorOffset" /\ fvf_result = Return(COPY)) =>
           /\ call.max_distance # << >>
           /\ call.max_distance[1] > call.distance

C20_Witness ==
    /\ OffsetAccepted
    /\ call.max_distance = << >>
    /\ call.distance = 1
    /\ Len(Buffer) = 2
    /\ Moved = args.distance
    /\ failure = ErrCollision
    /\ result = Raise(ErrCollision)

\* C21: every waypoint of a trajectory FollowVectorField returns, the buffer
\* or the cached copy, was appended in a pass whose collision tests passed,
\* holds a configuration at which the field's velocity was not stalled and
\* at which the evaluator raised nothing; the waypoint of a pass that failed
\* one of these may lie in the abandoned buffer, never in what is returned.
\* The velocity computed at waypoint k is the one waypoint k+1 records, and
\* dqout for the last waypoint of the buffer.
VelocityAt(k) == IF k < Len(Buffer) THEN WpDq(Buffer[k + 1]) ELSE dqout

WaypointPassed(k) ==
    /\ SumSq(VelocityAt(k)) >= dq_tol * dq_tol
    /\ fn_terminate(WpQ(Buffer[k])).exc = NoExc

C21_ReturnedWaypointsPassed ==
    /\ [](FvfReturned =>
              /\ IsPrefix(ReturnedTraj, Buffer)
              /\ ReturnedTraj # << >>
              /\ \A k \in 1..Len(ReturnedTraj) : WaypointPassed(k)
              /\ failure \in {ErrStall, ErrOrientation, ErrLine} =>
                     Len(ReturnedTraj) < Len(Buffer))
    /\ [](failure \in {ErrStall, ErrOrientation, ErrLine} =>
              ~WaypointPassed(Len(Buffer)))
    /\ [][(PassStep /\ Len(Buffer') > Len(Buffer)) =>
              failure' \notin {ErrCollision, ErrSelfCollision}]_vars
    /\ [][(PassStep /\ failure' \in {ErrCollision, ErrSelfCollision}) =>
              trajs' = trajs]_vars

C21_Witness ==
    /\ fvf_result = Return(COPY)
    /\ failure = ErrStall
    /\ Len(Buffer) = 3
    /\ Len(ReturnedTraj) = 2
    /\ SumSq(dqout) < dq_tol * dq_tol

\* C22: PlanToTSR called with no goal-sampling chain left after validation
\* and filtering (no chain at all, or none with sample_goal) fails with the
\* "reached timeout" PlanningError as its next step, without calling
\* sample(), without an attempt and without the deadline having to pass.
NothingToSample ==
    /\ method = "PlanToTSR"
    /\ pc # "idle"
    /\ ~Unsupported(tsr.given)
    /\ \A i \in 1..Len(tsr.given) : ~tsr.given[i].sample_goal

C22_NoGoalChainFailsAtOnce ==
    /\ [](NothingToSample =>
              /\ pc \in {"tsr", "done"}
              /\ tsr.samples = 0
              /\ tsr.raised = NoExc
              /\ fvf_result = NoResult
              /\ Buffer = << >>
              /\ pc = "done" => result = Raise(TsrTimeoutError))
    /\ [][(NothingToSample /\ pc = "tsr" /\ now' = now) =>
              (pc' = "done" /\ result' = Raise(TsrTimeoutError))]_vars
    /\ [](NothingToSample /\ pc = "tsr" => ENABLED TsrTimeout)

C22_Witness ==
    /\ NothingToSample
    /\ tsr.given = <<IdleChain>>
    /\ pc = "done"
    /\ result = Raise(TsrTimeoutError)
    /\ now < tsr.deadline

====
